---- MODULE Spec2Model ----
(***************************************************************************)
(* The CNC interpreter ("vm") of gocnc, src/vm/main.go: a modal state      *)
(* machine that executes parsed G-code statements, resolves units and      *)
(* coordinate modes, expands arcs into line segments and records every     *)
(* resolved position, with the modal state active there, on a stack.       *)
(*                                                                         *)
(* Numbers.  The program computes in float64.  The model computes in exact *)
(* fixed-point arithmetic: the integer n stands for the real n / Scale, so *)
(* X1 is 100, 25.4 is 2540 and G90.1 is 9010.  The one non-real float the   *)
(* program can produce, NaN, is a reserved value that every operation      *)
(* propagates and every comparison answers false for, as IEEE 754 does.    *)
(***************************************************************************)
EXTENDS Integers, Sequences, FiniteSets, TLC

VARIABLES
    vm,     \* the Machine (src/vm/main.go:149-160)
    stmt,   \* the Statement handed to the last run call
    err,    \* what the last call returned
    op,     \* the last operation: "Init", "run", "finalize" or "Process"
    doc,    \* the document handed to the last Process call
    res,    \* what the last statement lookup (getDefault, includes) returned
    intOfNaN, \* what this build's int(x) gives for a NaN x
    calls   \* the number of statements handed to the machine so far

vars == <<vm, stmt, err, op, doc, res, intOfNaN, calls>>

-----------------------------------------------------------------------------
(* Numbers *)

Scale == 100

NaN == -999999999

IsNaN(a) == a = NaN

Num(n) == n * Scale

Abs(a) == IF a < 0 THEN -a ELSE a

\* a + b and a - b in float64
Add(a, b) == IF IsNaN(a) \/ IsNaN(b) THEN NaN ELSE a + b

Sub(a, b) == IF IsNaN(a) \/ IsNaN(b) THEN NaN ELSE a - b

\* a * 25.4; exact on the grid when 254 * a is a multiple of 10
Mul254(a) == IF IsNaN(a) THEN NaN ELSE (a * 254) \div 10

OnGrid254(a) == IF IsNaN(a) THEN TRUE ELSE (a * 254) % 10 = 0

-----------------------------------------------------------------------------
(* Statements *)

Word(a, c) == [Address |-> a, Command |-> c]

Nil == "nil"

ErrMultiple == "Multiple instances of address in block"

ErrNotFound == "address not found in block"

\* The words of stmt with the given address, in order.
Occurrences(stmt_, address) == SelectSeq(stmt_, LAMBDA m : m.Address = address)

\* What the loop of Statement.get leaves, given the occurrences of the
\* address: it returns at the second occurrence, res still being the first
\* one's value; res is the zero value when there is none.
getOf(occ) ==
    IF Len(occ) >= 2 THEN [res |-> occ[1].Command, err |-> ErrMultiple]
    ELSE IF Len(occ) = 0 THEN [res |-> 0, err |-> ErrNotFound]
    ELSE [res |-> occ[1].Command, err |-> Nil]

\* Statement.get
get(stmt_, address) == getOf(Occurrences(stmt_, address))

\* The two returns of Statement.getDefault, given what get returned: def is
\* returned when get succeeded.
getDefaultOf(r, def) == IF r.err = Nil THEN def ELSE r.res

\* Statement.getDefault
getDefault(stmt_, address, def) == getDefaultOf(get(stmt_, address), def)

commandsOf(occ) == [i \in 1..Len(occ) |-> occ[i].Command]

\* getAll reading only the first word of the statement
getAll_First(stmt_, address) ==
    IF stmt_ # <<>> /\ stmt_[1].Address = address
    THEN <<stmt_[1].Command>>
    ELSE <<>>

\* Statement.getAll
getAll(stmt_, address) == commandsOf(Occurrences(stmt_, address))

\* Statement.includes: true at the first address for which get succeeds.
includes(stmt_, addresses) ==
    \E i \in 1..Len(addresses) : get(stmt_, addresses[i]).err = Nil

\* Statement.hasWord
hasWord(stmt_, address, command) ==
    \E i \in 1..Len(stmt_) :
        stmt_[i].Address = address /\ stmt_[i].Command = command

-----------------------------------------------------------------------------
(* State structs *)

moveModeNone == 0
moveModeRapid == 1
moveModeLinear == 2
moveModeCWArc == 3
moveModeCCWArc == 4

planeXY == 0
planeXZ == 1
planeYZ == 2

\* The zero value of State
ZeroState ==
    [feedrate |-> 0, spindleSpeed |-> 0, moveMode |-> moveModeNone,
     spindleEnabled |-> FALSE, spindleClockwise |-> FALSE,
     floodCoolant |-> FALSE, mistCoolant |-> FALSE]

Position(state, x, y, z) == [state |-> state, x |-> x, y |-> y, z |-> z]

\* The zero value of Position
ZeroPosition == Position(ZeroState, 0, 0, 0)

\* The zero value of Machine
ZeroMachine ==
    [state |-> ZeroState, metric |-> FALSE, absoluteMove |-> FALSE,
     absoluteArc |-> FALSE, movePlane |-> planeXY, completed |-> FALSE,
     maxArcDeviation |-> 0, minArcLineLength |-> 0, tolerance |-> 0,
     posStack |-> <<>>]

-----------------------------------------------------------------------------
(* Positioning *)

\* Machine.curPos
curPos(m) == m.posStack[Len(m.posStack)]

\* addPos overwriting the top of the stack instead of growing it
addPos_Overwrite(m, pos) == [m EXCEPT !.posStack[Len(m.posStack)] = pos]

\* Machine.addPos
addPos(m, pos) == [m EXCEPT !.posStack = Append(m.posStack, pos)]

\* One axis of calcPos without the unit conversion
calcAxisOf_Unscaled(m, r, cur) == IF r.err # Nil THEN cur ELSE r.res

\* One axis of calcPos, given what get returned for it: the current
\* coordinate when get failed, else the written value, converted when the
\* machine is imperial.
calcAxisOf(m, r, cur) ==
    IF r.err # Nil THEN cur
    ELSE IF ~m.metric THEN Mul254(r.res)
    ELSE r.res

calcAxis(m, stmt_, address, cur) == calcAxisOf(m, get(stmt_, address), cur)

\* The unit conversion of I, J, K in calcPos:
\* newI, newJ, newK = newI*25.4, newJ*25.4, newZ*25.4
calcCentre(m, aZ, dI, dJ, dK) ==
    IF ~m.metric THEN [i |-> Mul254(dI), j |-> Mul254(dJ), k |-> Mul254(aZ)]
    ELSE [i |-> dI, j |-> dJ, k |-> dK]

\* The last two steps of calcPos: the relative move and relative arc modes
calcModes(m, pos, aX, aY, aZ, c) ==
    [newX |-> IF ~m.absoluteMove THEN Add(pos.x, aX) ELSE aX,
     newY |-> IF ~m.absoluteMove THEN Add(pos.y, aY) ELSE aY,
     newZ |-> IF ~m.absoluteMove THEN Add(pos.z, aZ) ELSE aZ,
     newI |-> IF ~m.absoluteArc THEN Add(pos.x, c.i) ELSE c.i,
     newJ |-> IF ~m.absoluteArc THEN Add(pos.y, c.j) ELSE c.j,
     newK |-> IF ~m.absoluteArc THEN Add(pos.z, c.k) ELSE c.k]

calcPosOf(m, stmt_, pos, aX, aY, aZ) ==
    calcModes(m, pos, aX, aY, aZ,
              calcCentre(m, aZ, getDefault(stmt_, "I", 0),
                         getDefault(stmt_, "J", 0), getDefault(stmt_, "K", 0)))

calcPosAt(m, stmt_, pos) ==
    calcPosOf(m, stmt_, pos, calcAxis(m, stmt_, "X", pos.x),
              calcAxis(m, stmt_, "Y", pos.y), calcAxis(m, stmt_, "Z", pos.z))

\* Machine.calcPos
calcPos(m, stmt_) == calcPosAt(m, stmt_, curPos(m))

positioningAt(m, p) == addPos(m, Position(m.state, p.newX, p.newY, p.newZ))

\* Machine.positioning
positioning(m, stmt_) == positioningAt(m, calcPos(m, stmt_))

-----------------------------------------------------------------------------
(* Arc approximation *)
(*                                                                         *)
(* Angles are counted in quarter turns (1 stands for pi/2), which is exact *)
(* for the arcs the model runs: those whose start and end lie on the axes  *)
(* through the centre (ArcInDomain).  There atan2, cos and sin take the    *)
(* values below and the radius is the one nonzero component.               *)

PanicInvalidArc == "Invalid arc statement"

PanicRadiusDeviation == "Radius deviation"

\* What int(x) gives for a NaN x: the conversion succeeds with an
\* implementation-dependent value, the most negative int on amd64 (here -1:
\* only its sign is used) and 0 on arm64.
NaNToInt == {-1, 0}

\* math.Atan2(d2, d1) for a vector on an axis
Atan2Q(d2, d1) ==
    IF IsNaN(d1) \/ IsNaN(d2) THEN NaN
    ELSE IF d2 = 0 THEN (IF d1 >= 0 THEN 0 ELSE 2)
    ELSE IF d2 > 0 THEN 1 ELSE -1

\* math.Cos and math.Sin of q quarter turns
CosQ(q) == IF q % 4 = 0 THEN 1 ELSE IF q % 4 = 2 THEN -1 ELSE 0

SinQ(q) == CosQ(q - 1)

\* math.Sqrt(math.Pow(d1, 2) + math.Pow(d2, 2)) for a vector on an axis
radius(d1, d2) == IF IsNaN(d1) \/ IsNaN(d2) THEN NaN ELSE Abs(d1) + Abs(d2)

\* The start, end and centre of the arc in the canonical plane: the switch
\* on vm.movePlane.
arcFrameOf(plane, startPos, e) ==
    IF plane = planeXY THEN
        [s1 |-> startPos.x, s2 |-> startPos.y, s3 |-> startPos.z,
         e1 |-> e.newX, e2 |-> e.newY, e3 |-> e.newZ,
         c1 |-> e.newI, c2 |-> e.newJ]
    ELSE IF plane = planeXZ THEN
        [s1 |-> startPos.z, s2 |-> startPos.x, s3 |-> startPos.y,
         e1 |-> e.newZ, e2 |-> e.newX, e3 |-> e.newY,
         c1 |-> e.newK, c2 |-> e.newI]
    ELSE
        [s1 |-> startPos.y, s2 |-> startPos.z, s3 |-> startPos.x,
         e1 |-> e.newY, e2 |-> e.newZ, e3 |-> e.newX,
         c1 |-> e.newJ, c2 |-> e.newK]

arcFrame(m, stmt_) == arcFrameOf(m.movePlane, curPos(m), calcPos(m, stmt_))

\* The add closure of the active plane: the statement it hands to
\* positioning for the canonical point (x, y, z).
addStmt(plane, x, y, z) ==
    IF plane = planeXY THEN <<Word("X", x), Word("Y", y), Word("Z", z)>>
    ELSE IF plane = planeXZ THEN <<Word("X", y), Word("Y", z), Word("Z", x)>>
    ELSE <<Word("X", z), Word("Y", x), Word("Z", y)>>

add(m, x, y, z) == positioning(m, addStmt(m.movePlane, x, y, z))

\* The additional rotation parameter P, in quarter turns
arcPOf(pp) == IF pp.err = Nil THEN (4 * pp.res) \div Scale ELSE 0

arcP(stmt_) == arcPOf(get(stmt_, "P"))

\* theta1 and theta2
arcTheta1(f) == Atan2Q(Sub(f.s2, f.c2), Sub(f.s1, f.c1))

arcTheta2(f) == Atan2Q(Sub(f.e2, f.c2), Sub(f.e1, f.c1))

\* angleDiff, from theta2 - theta1: corrected for the direction, then plus
\* or minus P turns
arcAngleOf(d0, clockwise, P) ==
    IF IsNaN(d0) THEN NaN
    ELSE IF d0 < 0 /\ ~clockwise THEN d0 + 4 + P
    ELSE IF d0 > 0 /\ clockwise THEN d0 - 4 - P
    ELSE IF clockwise THEN d0 - P
    ELSE d0 + P

arcAngleDiff(f, clockwise, P) ==
    arcAngleOf(Sub(arcTheta2(f), arcTheta1(f)), clockwise, P)

\* math.Abs(angleDiff) * math.Sqrt(radius1^2 + ((e3-s3)/angleDiff)^2) >= len,
\* for a finite nonzero angleDiff: the length is the root of
\* (|angleDiff| * pi/2 * radius1)^2 + (e3-s3)^2, with pi bounded by 355/113.
arcLenAtLeast(r1, angleDiff, dz, len) ==
    \/ len <= 0
    \/ 355 * Abs(angleDiff) * r1 > 226 * len
    \/ Abs(dz) >= len
    \/ /\ dz # 0
       /\ (355 * Abs(angleDiff) * r1) * (355 * Abs(angleDiff) * r1)
            + (226 * dz) * (226 * dz) > (226 * len) * (226 * len)

\* steps, before the minimum line length: the angular bound, where
\* 2 * acos(1 - 1/2) is 4/3 of a quarter turn
arcSteps1(m, r1, angleDiff, nanInt) ==
    IF ~IsNaN(r1) /\ m.maxArcDeviation < r1 THEN
        IF IsNaN(angleDiff) THEN nanInt
        ELSE (3 * Abs(angleDiff) + 3) \div 4
    ELSE 1

\* steps2 := int(arcLen / vm.minArcLineLength), counted up to steps: it is
\* only compared with steps.
arcSteps2(m, r1, angleDiff, dz, nanInt, steps) ==
    IF IsNaN(r1) \/ IsNaN(angleDiff) \/ IsNaN(dz) \/ angleDiff = 0 THEN nanInt
    ELSE Cardinality({k \in 1..steps :
            arcLenAtLeast(r1, angleDiff, dz, k * m.minArcLineLength)})

\* if steps > steps2 { steps = steps2 }
arcStepsMin(steps, steps2) == IF steps > steps2 THEN steps2 ELSE steps

arcStepsOf(m, r1, angleDiff, dz, nanInt, steps) ==
    arcStepsMin(steps, arcSteps2(m, r1, angleDiff, dz, nanInt, steps))

\* The number of segments
arcSteps(m, r1, angleDiff, dz, nanInt) ==
    arcStepsOf(m, r1, angleDiff, dz, nanInt,
               arcSteps1(m, r1, angleDiff, nanInt))

\* The canonical point of iteration i of the loop, at the given angle
arcPointAt(f, r1, dz, steps, i, angle) ==
    [a1 |-> IF IsNaN(angle) THEN NaN ELSE Add(f.c1, r1 * CosQ(angle)),
     a2 |-> IF IsNaN(angle) THEN NaN ELSE Add(f.c2, r1 * SinQ(angle)),
     a3 |-> IF steps = 0 \/ IsNaN(dz) THEN NaN
            ELSE Add(f.s3, (dz \div steps) * i)]

\* angle = theta1 + angleDiff/float64(steps)*float64(i)
arcAngle(theta1, r1, angleDiff, steps, i) ==
    IF IsNaN(theta1) \/ IsNaN(angleDiff) \/ IsNaN(r1) \/ steps = 0 THEN NaN
    ELSE theta1 + (angleDiff \div steps) * i

arcPoint(f, r1, angleDiff, steps, i) ==
    arcPointAt(f, r1, Sub(f.e3, f.s3), steps, i,
               arcAngle(arcTheta1(f), r1, angleDiff, steps, i))

addPoint(m, a) == add(m, a.a1, a.a2, a.a3)

\* The loop "for i := 0; i <= steps; i++", from iteration i on
RECURSIVE arcEmit(_, _, _, _, _, _)
arcEmit(m, f, r1, angleDiff, steps, i) ==
    IF i > steps THEN m
    ELSE arcEmit(addPoint(m, arcPoint(f, r1, angleDiff, steps, i)),
                 f, r1, angleDiff, steps, i + 1)

\* The loop and the final add(e1, e2, e3)
arcLines(m, f, r1, angleDiff, steps) ==
    add(arcEmit(m, f, r1, angleDiff, steps, 0), f.e1, f.e2, f.e3)

\* The two panics, then the segments
arcChecked(m, f, radius1, radius2, angleDiff, nanInt) ==
    IF radius1 = 0 \/ radius2 = 0 THEN
        [vm |-> m, panic |-> PanicInvalidArc]
    ELSE IF ~IsNaN(radius1) /\ ~IsNaN(radius2)
            /\ 100 * Abs(radius2 - radius1) > radius1 THEN
        [vm |-> m, panic |-> PanicRadiusDeviation]
    ELSE [vm |-> arcLines(m, f, radius1, angleDiff,
                          arcSteps(m, radius1, angleDiff, Sub(f.e3, f.s3), nanInt)),
          panic |-> Nil]

arcRadius1(f) == radius(Sub(f.c1, f.s1), Sub(f.c2, f.s2))

arcRadius2(f) == radius(Sub(f.c1, f.e1), Sub(f.c2, f.e2))

arcFrom(m, f, clockwise, P, nanInt) ==
    arcChecked(m, f, arcRadius1(f), arcRadius2(f),
               arcAngleDiff(f, clockwise, P), nanInt)

\* approximateArc keeping the arc move mode while it pushes its lines
setLinear_Keep(m) == m

\* vm.state.moveMode = moveModeLinear
setLinear(m) == [m EXCEPT !.state.moveMode = moveModeLinear]

\* Machine.approximateArc; panic is the value it panics with, or Nil.
approximateArc(m, stmt_, nanInt) ==
    arcFrom(setLinear(m), arcFrame(m, stmt_),
            m.state.moveMode = moveModeCWArc, arcP(stmt_), nanInt)

-----------------------------------------------------------------------------
(* Dispatch *)

ErrFeedrate == "Feedrate must be greater than zero"

ErrSpindleSpeed == "Spindle speed must be greater than or equal to zero"

ErrNoMoveMode == "Move attempted without an active move mode"

\* The case labels 90.1 and 91.1
G90_1 == 9010

G91_1 == 9110

\* One iteration of the G-code loop: the switch has no default case.
applyG(m, g) ==
    IF g = Num(0) THEN [m EXCEPT !.state.moveMode = moveModeRapid]
    ELSE IF g = Num(1) THEN [m EXCEPT !.state.moveMode = moveModeLinear]
    ELSE IF g = Num(2) THEN [m EXCEPT !.state.moveMode = moveModeCWArc]
    ELSE IF g = Num(3) THEN [m EXCEPT !.state.moveMode = moveModeCCWArc]
    ELSE IF g = Num(17) THEN [m EXCEPT !.movePlane = planeXY]
    ELSE IF g = Num(18) THEN [m EXCEPT !.movePlane = planeXZ]
    ELSE IF g = Num(19) THEN [m EXCEPT !.movePlane = planeYZ]
    ELSE IF g = Num(20) THEN [m EXCEPT !.metric = FALSE]
    ELSE IF g = Num(21) THEN [m EXCEPT !.metric = TRUE]
    ELSE IF g = Num(80) THEN [m EXCEPT !.state.moveMode = moveModeNone]
    ELSE IF g = Num(90) THEN [m EXCEPT !.absoluteMove = TRUE]
    ELSE IF g = G90_1 THEN [m EXCEPT !.absoluteArc = TRUE]
    ELSE IF g = Num(91) THEN [m EXCEPT !.absoluteMove = FALSE]
    ELSE IF g = G91_1 THEN [m EXCEPT !.absoluteArc = FALSE]
    ELSE m

\* One iteration of the M-code loop: the switch has no default case.
applyM(m, c) ==
    IF c = Num(2) THEN [m EXCEPT !.completed = TRUE]
    ELSE IF c = Num(3) THEN
        [m EXCEPT !.state.spindleEnabled = TRUE, !.state.spindleClockwise = TRUE]
    ELSE IF c = Num(4) THEN
        [m EXCEPT !.state.spindleEnabled = TRUE, !.state.spindleClockwise = FALSE]
    ELSE IF c = Num(5) THEN [m EXCEPT !.state.spindleEnabled = FALSE]
    ELSE IF c = Num(7) THEN [m EXCEPT !.state.mistCoolant = TRUE]
    ELSE IF c = Num(8) THEN [m EXCEPT !.state.floodCoolant = TRUE]
    ELSE IF c = Num(9) THEN
        [m EXCEPT !.state.mistCoolant = FALSE, !.state.floodCoolant = FALSE]
    ELSE IF c = Num(30) THEN [m EXCEPT !.completed = TRUE]
    ELSE m

\* for _, g := range stmt.getAll('G'), from the i-th value on
RECURSIVE runG(_, _, _)
runG(m, gs, i) == IF i > Len(gs) THEN m ELSE runG(applyG(m, gs[i]), gs, i + 1)

\* for _, m := range stmt.getAll('M'), from the i-th value on
RECURSIVE runM(_, _, _)
runM(m, ms, i) == IF i > Len(ms) THEN m ELSE runM(applyM(m, ms[i]), ms, i + 1)

\* One iteration of the F-code loop, given the converted value f
applyF(m, f) == [m EXCEPT !.state.feedrate = f]

\* if !vm.metric { f *= 25.4 }
feedOf(m, f) == IF ~m.metric THEN Mul254(f) ELSE f

RECURSIVE runF(_, _, _)
\* The F-code loop storing a value before it validates it
runF_StoreFirst(m, fs, i) ==
    IF i > Len(fs) THEN [vm |-> m, err |-> Nil]
    ELSE IF feedOf(m, fs[i]) <= 0
    THEN [vm |-> applyF(m, feedOf(m, fs[i])), err |-> ErrFeedrate]
    ELSE runF(applyF(m, feedOf(m, fs[i])), fs, i + 1)

\* for _, f := range stmt.getAll('F'), from the i-th value on; the loop
\* returns at the first value that is not positive.
runF(m, fs, i) ==
    IF i > Len(fs) THEN [vm |-> m, err |-> Nil]
    ELSE IF feedOf(m, fs[i]) <= 0 THEN [vm |-> m, err |-> ErrFeedrate]
    ELSE runF(applyF(m, feedOf(m, fs[i])), fs, i + 1)

\* for _, s := range stmt.getAll('S'), from the i-th value on
RECURSIVE runS(_, _, _)
runS(m, ss, i) ==
    IF i > Len(ss) THEN [vm |-> m, err |-> Nil]
    ELSE IF ss[i] < 0 THEN [vm |-> m, err |-> ErrSpindleSpeed]
    ELSE runS([m EXCEPT !.state.spindleSpeed = ss[i]], ss, i + 1)

\* The S-code section, reached when the F-code section returned no error
runCodesS(rF, ss) == IF rF.err # Nil THEN rF ELSE runS(rF.vm, ss, 1)

\* The G-code and M-code sections of run
runGM(m, stmt_) == runM(runG(m, getAll(stmt_, "G"), 1), getAll(stmt_, "M"), 1)

\* The G-code, M-code, F-code and S-code sections of run
runCodes(m, stmt_) ==
    runCodesS(runF(runGM(m, stmt_), getAll(stmt_, "F"), 1), getAll(stmt_, "S"))

\* The deferred function of run: a panic becomes the returned error.
recovered(a) == [vm |-> a.vm, err |-> a.panic]

\* The X, Y, Z section of run
runMotion(m, stmt_, nanInt) ==
    IF ~includes(stmt_, <<"X", "Y", "Z">>) THEN [vm |-> m, err |-> Nil]
    ELSE IF m.state.moveMode = moveModeCWArc \/ m.state.moveMode = moveModeCCWArc
    THEN recovered(approximateArc(m, stmt_, nanInt))
    ELSE IF m.state.moveMode = moveModeLinear \/ m.state.moveMode = moveModeRapid
    THEN [vm |-> positioning(m, stmt_), err |-> Nil]
    ELSE [vm |-> m, err |-> ErrNoMoveMode]

\* The X, Y, Z section skipped once the statement has set completed
runThen_Completed(c, stmt_, nanInt) ==
    IF c.err # Nil \/ c.vm.completed THEN c
    ELSE runMotion(c.vm, stmt_, nanInt)

\* The X, Y, Z section, reached when the sections before returned no error
runThen(c, stmt_, nanInt) ==
    IF c.err # Nil THEN c ELSE runMotion(c.vm, stmt_, nanInt)

\* An outcome with the machine put back to m when it is an error
restoring(m, r) == IF r.err # Nil THEN [vm |-> m, err |-> r.err] ELSE r

\* run undoing the statement when it fails
run_RollingBack(m, stmt_, nanInt) ==
    IF m.completed THEN [vm |-> m, err |-> Nil]
    ELSE restoring(m, runThen(runCodes(m, stmt_), stmt_, nanInt))

\* run without the check of the completed flag
run_Unchecked(m, stmt_, nanInt) == runThen(runCodes(m, stmt_), stmt_, nanInt)

\* Machine.run
run(m, stmt_, nanInt) ==
    IF m.completed THEN [vm |-> m, err |-> Nil]
    ELSE runThen(runCodes(m, stmt_), stmt_, nanInt)

\* vm.state.moveMode = moveModeNone; vm.addPos(Position{state: vm.state}):
\* the coordinates of the pushed position are the zero value.
pushFinal(m) == addPos(m, Position(m.state, 0, 0, 0))

\* Machine.finalize
finalize(m) ==
    IF m.state # curPos(m).state
    THEN pushFinal([m EXCEPT !.state.moveMode = moveModeNone])
    ELSE m

\* A node of a block is a word or something else (a comment).
IsWord(n) == "Address" \in DOMAIN n

\* The statement Process makes of a block: its nodes that are words
blockStmt(b) == SelectSeq(b.Nodes, IsWord)

\* Machine.Process, from the i-th block on: the loop returns the first error
\* run returns, and finalize runs when the loop ends.
RECURSIVE ProcessFrom(_, _, _, _)
RECURSIVE ProcessNext(_, _, _, _)
\* The loop of Process going on to the next block after an error
ProcessNext_Continue(r, blocks, i, nanInt) ==
    ProcessFrom(r.vm, blocks, i + 1, nanInt)

ProcessFrom(m, blocks, i, nanInt) ==
    IF i > Len(blocks) THEN [vm |-> finalize(m), err |-> Nil]
    ELSE IF blocks[i].BlockDelete THEN ProcessFrom(m, blocks, i + 1, nanInt)
    ELSE ProcessNext(run(m, blockStmt(blocks[i]), nanInt), blocks, i, nanInt)

\* if err := vm.run(stmt); err != nil { return err }
ProcessNext(r, blocks, i, nanInt) ==
    IF r.err # Nil THEN r ELSE ProcessFrom(r.vm, blocks, i + 1, nanInt)

\* Machine.Process
ProcessDoc(m, blocks, nanInt) == ProcessFrom(m, blocks, 1, nanInt)

\* Machine.Init
MachineInit(m, maxArcDeviation, minArcLineLength, tolerance) ==
    [m EXCEPT !.posStack = Append(m.posStack, ZeroPosition),
              !.metric = TRUE, !.absoluteMove = TRUE, !.absoluteArc = FALSE,
              !.movePlane = planeXY, !.maxArcDeviation = maxArcDeviation,
              !.minArcLineLength = minArcLineLength, !.tolerance = tolerance]

-----------------------------------------------------------------------------
(* The runs the model follows *)
(*                                                                         *)
(* A statement is run when the fixed-point arithmetic above is exact for   *)
(* it: every value multiplied by 25.4 stays on the grid of 1 / Scale, and  *)
(* an arc has its start and end on the axes through its centre, a whole    *)
(* number P of quarter turns, a radius that is at most maxArcDeviation or  *)
(* twice it, and segments of a whole number of quarter turns.              *)

\* The written X, Y, Z values convert exactly.
AxesOnGrid(m, stmt_) ==
    ~m.metric => \A a \in {"X", "Y", "Z"} :
        get(stmt_, a).err = Nil => OnGrid254(get(stmt_, a).res)

OnAxis(d1, d2) == IF IsNaN(d1) \/ IsNaN(d2) THEN TRUE ELSE d1 = 0 \/ d2 = 0

ArcPanics(r1, r2) ==
    IF r1 = 0 \/ r2 = 0 THEN TRUE
    ELSE IF IsNaN(r1) \/ IsNaN(r2) THEN FALSE
    ELSE 100 * Abs(r2 - r1) > r1

ArcStepsInDomain(m, f, r1, angleDiff, dz, steps) ==
    /\ (~IsNaN(angleDiff) /\ steps >= 1) =>
            /\ angleDiff % steps = 0
            /\ ~IsNaN(dz) => dz % steps = 0
    /\ ~m.metric => \A i \in 0..steps :
            /\ OnGrid254(arcPoint(f, r1, angleDiff, steps, i).a1)
            /\ OnGrid254(arcPoint(f, r1, angleDiff, steps, i).a2)
            /\ OnGrid254(arcPoint(f, r1, angleDiff, steps, i).a3)
    /\ ~m.metric => (OnGrid254(f.e1) /\ OnGrid254(f.e2) /\ OnGrid254(f.e3))

ArcGeometryInDomain(m, f, r1, r2, angleDiff, dz, nanInt) ==
    /\ OnAxis(Sub(f.s1, f.c1), Sub(f.s2, f.c2))
    /\ OnAxis(Sub(f.e1, f.c1), Sub(f.e2, f.c2))
    /\ ~ArcPanics(r1, r2) =>
        /\ (~IsNaN(r1) /\ ~IsNaN(angleDiff) /\ m.maxArcDeviation < r1) =>
                2 * m.maxArcDeviation = r1
        /\ (~IsNaN(r1) /\ ~IsNaN(angleDiff) /\ ~IsNaN(dz) /\ dz # 0
            /\ angleDiff # 0) =>
                226 * 4 * m.minArcLineLength <= 46340
        /\ ~IsNaN(r1) =>
                ArcStepsInDomain(m, f, r1, angleDiff, dz,
                                 arcSteps(m, r1, angleDiff, dz, nanInt))

ArcFrameInDomain(m, f, clockwise, P, nanInt) ==
    ArcGeometryInDomain(m, f, arcRadius1(f), arcRadius2(f),
                        arcAngleDiff(f, clockwise, P), Sub(f.e3, f.s3), nanInt)

ArcInDomain(m, stmt_, nanInt) ==
    /\ AxesOnGrid(m, stmt_)
    /\ ~m.metric => /\ OnGrid254(getDefault(stmt_, "I", 0))
                    /\ OnGrid254(getDefault(stmt_, "J", 0))
                    /\ OnGrid254(calcAxis(m, stmt_, "Z", curPos(m).z))
    /\ get(stmt_, "P").err = Nil => (4 * get(stmt_, "P").res) % Scale = 0
    /\ ArcFrameInDomain(setLinear(m), arcFrame(m, stmt_),
                        m.state.moveMode = moveModeCWArc, arcP(stmt_), nanInt)

\* The F values convert exactly.
FeedOnGrid(m, stmt_) ==
    ~m.metric => \A i \in 1..Len(stmt_) :
        stmt_[i].Address = "F" => OnGrid254(stmt_[i].Command)

MotionInDomain(c, stmt_, nanInt) ==
    (c.err = Nil /\ includes(stmt_, <<"X", "Y", "Z">>)) =>
        IF c.vm.state.moveMode \in {moveModeCWArc, moveModeCCWArc}
        THEN ArcInDomain(c.vm, stmt_, nanInt)
        ELSE AxesOnGrid(c.vm, stmt_)

InDomain(m, stmt_, nanInt) ==
    IF m.completed THEN TRUE
    ELSE /\ FeedOnGrid(runGM(m, stmt_), stmt_)
         /\ MotionInDomain(runCodes(m, stmt_), stmt_, nanInt)

RECURSIVE ProcessInDomain(_, _, _, _)
RECURSIVE ProcessNextInDomain(_, _, _, _)
ProcessInDomain(m, blocks, i, nanInt) ==
    IF i > Len(blocks) THEN TRUE
    ELSE IF blocks[i].BlockDelete THEN ProcessInDomain(m, blocks, i + 1, nanInt)
    ELSE /\ InDomain(m, blockStmt(blocks[i]), nanInt)
         /\ ProcessNextInDomain(run(m, blockStmt(blocks[i]), nanInt),
                                blocks, i, nanInt)

ProcessNextInDomain(r, blocks, i, nanInt) ==
    IF r.err # Nil THEN TRUE ELSE ProcessInDomain(r.vm, blocks, i + 1, nanInt)

-----------------------------------------------------------------------------
(* Inputs *)

MaxCalls == 3

MaxBlocks == 3

MaxLen == 3

G(n) == Word("G", Num(n))
M(n) == Word("M", Num(n))
F(n) == Word("F", Num(n))
S(n) == Word("S", Num(n))
X(n) == Word("X", Num(n))
Y(n) == Word("Y", Num(n))
Z(n) == Word("Z", Num(n))
I(n) == Word("I", Num(n))
J(n) == Word("J", Num(n))
K(n) == Word("K", Num(n))
P(n) == Word("P", Num(n))

\* The arc settings handed to Init: (maxArcDeviation, minArcLineLength,
\* tolerance).  0.5 and 0.01 subdivide an arc of radius 1; 1000 as the
\* deviation never subdivides; 1000 as the minimum length exceeds every arc.
Subdividing == <<50, 1, 1>>

Settings == {Subdividing, <<Num(1000), 1, 1>>, <<Num(1000), Num(1000), 1>>}

\* The statements handed to run: every kind of word, alone and combined
Stmts ==
    {<<G(1)>>, <<G(4)>>, <<G(80)>>, <<G(91)>>, <<G(20)>>,
     <<Word("G", G90_1)>>,
     <<M(2)>>, <<M(3)>>, <<M(6)>>, <<M(30)>>,
     <<F(0)>>, <<F(100)>>, <<S(-1)>>,
     <<X(1)>>, <<Y(1)>>,
     <<X(1), X(2)>>, <<G(1), X(1)>>, <<G(1), X(1), Y(1)>>, <<G(80), X(1)>>,
     <<M(2), X(1)>>, <<F(100), F(0)>>, <<G(3), X(-1), I(1)>>}

\* The statements of the arc runs: moves off the origin, the modes, and arcs
\* about the origin (a half turn, a quarter turn, a full turn, one with a
\* wrong radius, one with an extra turn, a helix) and about a written centre
ArcStmts ==
    {<<G(1), X(1)>>, <<G(1), Y(1)>>, <<G(91), G(1), X(1)>>,
     <<G(20), G(1), X(1)>>,
     <<Word("G", G90_1)>>, <<G(18)>>, <<G(19)>>,
     <<Word("G", G90_1), G(2), X(-1)>>, <<Word("G", G90_1), G(3), X(-1)>>,
     <<G(2), X(0), Y(1)>>, <<G(3), X(1)>>, <<G(2), X(2)>>,
     <<G(2), X(-1), P(1)>>, <<G(3), X(-1), Z(1)>>,
     <<G(2), X(-1), I(-1), I(5)>>, <<G(3), Y(-1)>>, <<G(2), Z(-1)>>,
     <<G(2), X(-1), I(-1)>>,
     <<F(0)>>, <<M(3)>>}

\* The statements of the feedrate and spindle runs: values below, at and
\* above zero, alone, repeated and with the unit modes and a move
FeedStmts ==
    {<<F(-1)>>, <<F(0)>>, <<F(100)>>, <<F(50)>>, <<S(-1)>>, <<S(0)>>,
     <<S(1000)>>, <<G(20)>>, <<G(20), F(100)>>, <<G(21), F(50)>>,
     <<F(100), F(0)>>, <<F(-1), F(100)>>, <<S(1000), S(-1)>>,
     <<F(100), S(-1)>>, <<F(0), S(1000)>>, <<S(1000), F(100), G(1), X(1)>>,
     <<G(1), X(1)>>, <<F(0), X(1)>>, <<M(3)>>}

\* The statements of the unit runs: the unit and move modes, and moves
\* naming one, two and three axes
UnitStmts ==
    {<<G(20)>>, <<G(21)>>, <<G(1)>>, <<G(91)>>, <<G(90)>>,
     <<G(0), X(1)>>, <<G(20), G(1), X(1)>>, <<G(21), X(2)>>, <<X(2)>>,
     <<Y(1)>>, <<Z(-1)>>, <<X(1), Y(-1), Z(2)>>, <<G(20), G(0), Y(2), Z(1)>>,
     <<X(1), X(2), Y(1)>>, <<F(100)>>, <<M(3)>>}

\* The statements of the order runs: words of several addresses in orders
\* other than the one run handles them in
OrderStmts ==
    {<<X(1), F(100), G(1), G(20)>>, <<X(1), G(1)>>, <<Y(1), S(1000), M(3), G(0)>>,
     <<X(-1), Word("G", G90_1), G(2)>>, <<X(1), F(0), G(1)>>, <<X(1), M(2)>>,
     <<X(1), S(-1), F(0)>>, <<Y(1), X(1), X(2), G(1)>>, <<X(1), G(91), G(1)>>,
     <<Y(1)>>, <<M(5), G(80)>>, <<F(100), G(21)>>}

\* The statements of the mode runs: the four absolute and relative codes,
\* alone and together, moves, and arcs with and without a written centre
ModeStmts ==
    {<<G(90)>>, <<G(91)>>, <<Word("G", G90_1)>>, <<Word("G", G91_1)>>,
     <<G(91), Word("G", G90_1)>>, <<G(1), X(2)>>, <<G(1), X(1)>>,
     <<G(2), X(-2), I(1)>>, <<G(2), X(-2)>>, <<G(3), X(-2), I(1), J(0)>>,
     <<G(20)>>, <<G(18)>>, <<M(3)>>, <<F(100)>>}

\* The statements of the program end runs: M2 and M30 alone and with F, S
\* and axis words that are accepted or rejected, and the same without them
EndStmts ==
    {<<M(2)>>, <<M(30)>>, <<M(2), X(1)>>, <<M(30), F(0)>>, <<M(2), S(-1)>>,
     <<M(30), G(1), X(1)>>, <<M(2), G(2), X(-1)>>,
     <<M(2), F(100), S(1000), Y(1)>>, <<G(1), X(1)>>, <<G(1)>>, <<X(1)>>,
     <<F(100)>>, <<M(3)>>}

\* The statements of the failing runs: rejected F, S and axis words behind
\* codes and accepted values, arcs that panic, and what leads up to them
FailStmts ==
    {<<G(20), G(91), M(3), F(0)>>, <<G(18), M(8), F(100), S(-1)>>,
     <<G(80), M(4), F(100), S(1000), X(1)>>, <<F(100), F(0), G(1)>>,
     <<S(1000), S(-1), M(2)>>, <<Word("G", G90_1), M(7), Y(1)>>,
     <<G(2), X(-1)>>, <<G(3), M(3), F(100), X(2)>>,
     <<Word("G", G90_1), G(2), X(2)>>, <<G(1), X(1)>>, <<G(80)>>,
     <<M(9)>>, <<F(50)>>}

\* The nodes of a block that are not words
Comment == [Comment |-> "(comment)"]

Block(del, nodes) == [BlockDelete |-> del, Nodes |-> nodes]

Blocks ==
    {Block(FALSE, <<G(1), Comment, X(1)>>), Block(TRUE, <<F(0)>>),
     Block(FALSE, <<F(0)>>), Block(FALSE, <<M(3)>>),
     Block(FALSE, <<M(2)>>), Block(FALSE, <<Y(1)>>)}

Docs == UNION {[1..n -> Blocks] : n \in 0..MaxBlocks}

\* The statements, addresses and defaults handed to the lookups
LookupWords == {X(1), X(2), Y(1), I(1)}

LookupStmts == UNION {[1..n -> LookupWords] : n \in 0..MaxLen}

LookupAddresses == {"X", "I", "K"}

LookupDefaults == {0, Num(5)}

LookupLists == {<<"X", "Y", "Z">>, <<"I">>, <<"Y", "I">>}

-----------------------------------------------------------------------------
(* Specification *)

NoResult == [call |-> <<>>, value |-> 0]

InitFrom(settings) ==
    /\ \E p \in settings : vm = MachineInit(ZeroMachine, p[1], p[2], p[3])
    /\ intOfNaN \in NaNToInt
    /\ stmt = <<>>
    /\ err = Nil
    /\ op = "Init"
    /\ doc = <<>>
    /\ res = NoResult
    /\ calls = 0

Init == InitFrom({Subdividing})

InitArc == InitFrom(Settings)

\* The machine and the returned error a call leaves
Returns(r) == vm' = r.vm /\ err' = r.err

\* A call run(s)
Run(s) ==
    /\ calls < MaxCalls
    /\ InDomain(vm, s, intOfNaN)
    /\ Returns(run(vm, s, intOfNaN))
    /\ stmt' = s
    /\ op' = "run"
    /\ doc' = <<>>
    /\ calls' = calls + 1
    /\ UNCHANGED <<res, intOfNaN>>

\* A call finalize()
Finalize ==
    /\ vm' = finalize(vm)
    /\ err' = Nil
    /\ stmt' = <<>>
    /\ op' = "finalize"
    /\ doc' = <<>>
    /\ UNCHANGED <<res, intOfNaN, calls>>

\* A call Process(d)
Process(d) ==
    /\ calls + Len(d) <= MaxCalls
    /\ ProcessInDomain(vm, d, 1, intOfNaN)
    /\ Returns(ProcessDoc(vm, d, intOfNaN))
    /\ stmt' = <<>>
    /\ op' = "Process"
    /\ doc' = d
    /\ calls' = calls + Len(d)
    /\ UNCHANGED <<res, intOfNaN>>

\* A call s.getDefault(address, def)
GetDefault(s, address, def) ==
    /\ stmt' = s
    /\ op' = "getDefault"
    /\ res' = [call |-> <<address, def>>, value |-> getDefault(s, address, def)]
    /\ UNCHANGED <<vm, err, doc, intOfNaN, calls>>

\* A call s.includes(addresses...)
Includes(s, addresses) ==
    /\ stmt' = s
    /\ op' = "includes"
    /\ res' = [call |-> addresses, value |-> includes(s, addresses)]
    /\ UNCHANGED <<vm, err, doc, intOfNaN, calls>>

Next ==
    \/ \E s \in Stmts : Run(s)
    \/ Finalize
    \/ \E d \in Docs : Process(d)

Spec == Init /\ [][Next]_vars

NextArc ==
    \/ \E s \in ArcStmts : Run(s)
    \/ Finalize

SpecArc == InitArc /\ [][NextArc]_vars

NextFeed ==
    \/ \E s \in FeedStmts : Run(s)
    \/ Finalize

SpecFeed == Init /\ [][NextFeed]_vars

NextUnits ==
    \/ \E s \in UnitStmts : Run(s)
    \/ Finalize

SpecUnits == Init /\ [][NextUnits]_vars

NextOrder ==
    \/ \E s \in OrderStmts : Run(s)
    \/ Finalize

SpecOrder == Init /\ [][NextOrder]_vars

NextModes ==
    \/ \E s \in ModeStmts : Run(s)
    \/ Finalize

SpecModes == Init /\ [][NextModes]_vars

NextEnd ==
    \/ \E s \in EndStmts : Run(s)
    \/ Finalize

SpecEnd == Init /\ [][NextEnd]_vars

NextFail ==
    \/ \E s \in FailStmts : Run(s)
    \/ Finalize

SpecFail == Init /\ [][NextFail]_vars

NextLookup ==
    \/ \E s \in LookupStmts, a \in LookupAddresses, d \in LookupDefaults :
            GetDefault(s, a, d)
    \/ \E s \in LookupStmts, l \in LookupLists : Includes(s, l)

SpecLookup == Init /\ [][NextLookup]_vars

-----------------------------------------------------------------------------
(* Properties *)

XYZ == <<"X", "Y", "Z">>

\* a is the start of b
IsPrefix(a, b) == Len(a) <= Len(b) /\ SubSeq(b, 1, Len(a)) = a

\* The number of times a statement names an address, and the value of an
\* address it names
Times(stmt_, address) == Len(Occurrences(stmt_, address))

ValueOf(stmt_, address) == Occurrences(stmt_, address)[1].Command

\* The last call was run, on a machine that had not completed
RanLive == op' = "run" /\ ~vm.completed

\* C1: the position stack is never empty, its first entry is the zero
\* position with the zero state, and no operation removes or changes an
\* entry: the stack before a step is the start of the stack after it.
C1_StackGrowsOnly ==
    /\ [](Len(vm.posStack) >= 1 /\ vm.posStack[1] = ZeroPosition)
    /\ [][IsPrefix(vm.posStack, vm'.posStack)]_vars

\* Runs that pushed a move, then a finalize that pushed its entry on top
C1_Witness ==
    /\ op = "finalize"
    /\ calls >= 2
    /\ Len(vm.posStack) >= 3
    /\ curPos(vm).state.moveMode = moveModeNone

\* C2: no entry of the position stack has a move mode of clockwise or
\* counter-clockwise arc, whatever was run: arcs, failing statements,
\* finalize.
C2_NoArcEntries ==
    \A i \in 1..Len(vm.posStack) :
        vm.posStack[i].state.moveMode \in
            {moveModeNone, moveModeRapid, moveModeLinear}

\* An arc statement has run without error and pushed its lines
C2_Witness ==
    /\ op = "run"
    /\ err = Nil
    /\ ~vm.completed
    /\ hasWord(stmt, "G", Num(2)) \/ hasWord(stmt, "G", Num(3))
    /\ includes(stmt, XYZ)
    /\ Len(vm.posStack) >= 3
    /\ curPos(vm).state.moveMode = moveModeLinear

\* C3: once completed is set, a run returns no error and leaves the whole
\* machine as it was, the position stack included.
C3_CompletedRunIsNoOp ==
    [][(op' = "run" /\ vm.completed) => (err' = Nil /\ vm' = vm)]_vars

\* A statement that fails or moves on a live machine has been run on a
\* completed one
C3_Witness ==
    /\ op = "run"
    /\ vm.completed
    /\ getAll(stmt, "M") = <<>>
    /\ \/ hasWord(stmt, "F", 0)
       \/ hasWord(stmt, "S", Num(-1))
       \/ includes(stmt, XYZ)

\* The machine run leaves after the blocks 1..n of a document that are not
\* deleted, whatever run returned
RECURSIVE Applied(_, _, _, _)
Applied(m, blocks, n, nanInt) ==
    IF n = 0 THEN m
    ELSE IF blocks[n].BlockDelete THEN Applied(m, blocks, n - 1, nanInt)
    ELSE run(Applied(m, blocks, n - 1, nanInt), blockStmt(blocks[n]), nanInt).vm

\* What run returns for block k of a document after the blocks before it
RunOfBlock(m, blocks, k, nanInt) ==
    run(Applied(m, blocks, k - 1, nanInt), blockStmt(blocks[k]), nanInt)

FailsAt(m, blocks, k, nanInt) ==
    /\ ~blocks[k].BlockDelete
    /\ RunOfBlock(m, blocks, k, nanInt).err # Nil

FirstFailure(m, blocks, k, nanInt) ==
    /\ FailsAt(m, blocks, k, nanInt)
    /\ \A j \in 1..(k - 1) : ~FailsAt(m, blocks, j, nanInt)

\* C4: Process returns the error of the first statement whose run fails
\* and leaves the machine as that run left it: the positions and state of
\* the statements before it are kept, no later block is run, and finalize
\* is not run.
C4_ProcessStopsAtFirstError ==
    [][op' = "Process" =>
        \A k \in 1..Len(doc') :
            FirstFailure(vm, doc', k, intOfNaN) =>
                /\ err' = RunOfBlock(vm, doc', k, intOfNaN).err
                /\ vm' = RunOfBlock(vm, doc', k, intOfNaN).vm
                /\ IsPrefix(Applied(vm, doc', k - 1, intOfNaN).posStack,
                            vm'.posStack)]_vars

\* Process on a new machine: a move, a failing F0, and a move never run
C4_Witness ==
    /\ op = "Process"
    /\ calls = Len(doc)
    /\ Len(doc) = 3
    /\ blockStmt(doc[1]) = <<G(1), X(1)>>
    /\ doc[2] = Block(FALSE, <<F(0)>>)
    /\ doc[3] = Block(FALSE, <<Y(1)>>)
    /\ err = ErrFeedrate
    /\ Len(vm.posStack) = 2
    /\ curPos(vm).x = Num(1)

\* The G and M codes run handles
SupportedG ==
    {Num(0), Num(1), Num(2), Num(3), Num(17), Num(18), Num(19), Num(20),
     Num(21), Num(80), Num(90), Num(91), G90_1, G91_1}

SupportedM ==
    {Num(2), Num(3), Num(4), Num(5), Num(7), Num(8), Num(9), Num(30)}

HasUnsupportedCode(stmt_) ==
    \/ \E i \in 1..Len(stmt_) :
            stmt_[i].Address = "G" /\ stmt_[i].Command \notin SupportedG
    \/ \E i \in 1..Len(stmt_) :
            stmt_[i].Address = "M" /\ stmt_[i].Command \notin SupportedM

\* C5: a run of a statement with a G or M code outside the supported set
\* returns an error.
C5_UnsupportedCodeFails ==
    [][(RanLive /\ HasUnsupportedCode(stmt')) => err' # Nil]_vars

\* C6: getDefault returns the value of the address when the statement names
\* it (once), and the default when the statement does not name it.
C6_GetDefault ==
    op = "getDefault" =>
        /\ Times(stmt, res.call[1]) = 1 =>
                res.value = ValueOf(stmt, res.call[1])
        /\ Times(stmt, res.call[1]) = 0 => res.value = res.call[2]

\* C7: includes is true exactly when one of its addresses occurs in the
\* statement, once or more.
C7_Includes ==
    op = "includes" =>
        (res.value <=>
            \E i \in 1..Len(res.call) : Times(stmt, res.call[i]) >= 1)

\* C8: when the live state differs from the state of the last position,
\* finalize appends one entry with the coordinates of the last position
\* and the live state with move mode none; when they are equal it appends
\* nothing.
C8_Finalize ==
    [][op' = "finalize" =>
        IF vm.state # curPos(vm).state
        THEN /\ Len(vm'.posStack) = Len(vm.posStack) + 1
             /\ IsPrefix(vm.posStack, vm'.posStack)
             /\ curPos(vm').x = curPos(vm).x
             /\ curPos(vm').y = curPos(vm).y
             /\ curPos(vm').z = curPos(vm).z
             /\ curPos(vm').state =
                    [vm.state EXCEPT !.moveMode = moveModeNone]
        ELSE vm'.posStack = vm.posStack]_vars

\* The coordinate of an axis after a linear move
MovedAxis(stmt_, address, absolute, cur) ==
    IF Times(stmt_, address) = 0 THEN cur
    ELSE IF absolute THEN ValueOf(stmt_, address)
    ELSE cur + ValueOf(stmt_, address)

\* A statement naming each axis at most once and at least one axis
NamesAxesOnce(stmt_) ==
    /\ \A i \in 1..3 : Times(stmt_, XYZ[i]) <= 1
    /\ \E i \in 1..3 : Times(stmt_, XYZ[i]) = 1

\* C9: a linear or rapid move in metric units pushes one position; a named
\* axis is its value in absolute mode and the current coordinate plus its
\* value in relative mode, and an axis not named keeps its coordinate.
C9_LinearMove ==
    [][(/\ RanLive
        /\ err' = Nil
        /\ NamesAxesOnce(stmt')
        /\ vm'.metric
        /\ runGM(vm, stmt').state.moveMode \in
                {moveModeRapid, moveModeLinear}) =>
            /\ Len(vm'.posStack) = Len(vm.posStack) + 1
            /\ curPos(vm').x =
                MovedAxis(stmt', "X", vm'.absoluteMove, curPos(vm).x)
            /\ curPos(vm').y =
                MovedAxis(stmt', "Y", vm'.absoluteMove, curPos(vm).y)
            /\ curPos(vm').z =
                MovedAxis(stmt', "Z", vm'.absoluteMove, curPos(vm).z)]_vars

\* C10: a statement that names an axis while the move mode is none fails
\* with the error of no active move mode and pushes no position (for a
\* statement whose codes, feedrate and spindle speed are accepted).
C10_NoActiveMoveMode ==
    [][(/\ RanLive
        /\ \E i \in 1..3 : Times(stmt', XYZ[i]) >= 1
        /\ runCodes(vm, stmt').err = Nil
        /\ runGM(vm, stmt').state.moveMode = moveModeNone) =>
            /\ err' = ErrNoMoveMode
            /\ vm'.posStack = vm.posStack]_vars

\* The F values of a statement as run compares and stores them, and the
\* place of the first one run rejects (one past the end when there is none)
FeedValues(m, stmt_) ==
    [i \in 1..Len(getAll(stmt_, "F")) |->
        IF runGM(m, stmt_).metric THEN getAll(stmt_, "F")[i]
        ELSE Mul254(getAll(stmt_, "F")[i])]

FirstAtMost(vs, bound) ==
    IF \E i \in 1..Len(vs) : vs[i] <= bound
    THEN CHOOSE i \in 1..Len(vs) :
            vs[i] <= bound /\ \A j \in 1..(i - 1) : vs[j] > bound
    ELSE Len(vs) + 1

\* The value left by a loop that stores the values before place k
StoredBefore(vs, k, old) == IF k = 1 THEN old ELSE vs[k - 1]

FeedOK(f, m, s, m2, e) ==
    /\ f <= Len(FeedValues(m, s)) => e = ErrFeedrate
    /\ m2.state.feedrate =
            StoredBefore(FeedValues(m, s), f, m.state.feedrate)

SpindleOK(f, k, m, s, m2, e) ==
    /\ f > Len(FeedValues(m, s)) =>
        /\ k <= Len(getAll(s, "S")) => e = ErrSpindleSpeed
        /\ m2.state.spindleSpeed =
                StoredBefore(getAll(s, "S"), k, m.state.spindleSpeed)
    /\ f <= Len(FeedValues(m, s)) =>
            m2.state.spindleSpeed = m.state.spindleSpeed

NonNegative(st) == st.feedrate >= 0 /\ st.spindleSpeed >= 0

\* C11: a run with an F value that is not positive after unit conversion
\* returns the feedrate error, one with a negative S value (and valid F
\* values) returns the spindle speed error, and a rejected value is never
\* stored; accepted values are stored, the feedrate times 25.4 in imperial
\* mode.  The feedrate and spindle speed of the live state and of every
\* stack entry are never negative.
C11_FeedAndSpindle ==
    /\ [](/\ NonNegative(vm.state)
          /\ \A i \in 1..Len(vm.posStack) : NonNegative(vm.posStack[i].state))
    /\ [][RanLive =>
            /\ FeedOK(FirstAtMost(FeedValues(vm, stmt'), 0),
                      vm, stmt', vm', err')
            /\ SpindleOK(FirstAtMost(FeedValues(vm, stmt'), 0),
                         FirstAtMost(getAll(stmt', "S"), -1),
                         vm, stmt', vm', err')]_vars

\* An imperial feedrate was stored, then F100 F0 stored 100 and was rejected
\* at F0
C11_Witness ==
    /\ op = "run"
    /\ stmt = <<F(100), F(0)>>
    /\ err = ErrFeedrate
    /\ vm.state.feedrate = Num(100)
    /\ \E i \in 1..Len(vm.posStack) :
            vm.posStack[i].state.feedrate = Mul254(Num(100))

\* The value a statement writes for an address, 0 when it does not name it
WrittenOr0(stmt_, address) ==
    IF Times(stmt_, address) = 0 THEN 0 ELSE ValueOf(stmt_, address)

\* The centre the I, J, K words of a statement give in metric units: offsets
\* from the position p in relative arc mode, coordinates in absolute arc mode
GivenCentre(m, stmt_, p) ==
    [x |-> (IF m.absoluteArc THEN 0 ELSE p.x) + WrittenOr0(stmt_, "I"),
     y |-> (IF m.absoluteArc THEN 0 ELSE p.y) + WrittenOr0(stmt_, "J"),
     z |-> (IF m.absoluteArc THEN 0 ELSE p.z) + WrittenOr0(stmt_, "K")]

\* The end point the X, Y, Z words give in metric units and absolute mode
GivenEnd(stmt_, p) ==
    [x |-> MovedAxis(stmt_, "X", TRUE, p.x),
     y |-> MovedAxis(stmt_, "Y", TRUE, p.y),
     z |-> MovedAxis(stmt_, "Z", TRUE, p.z)]

\* The two components, in the plane of the arc, of the vector from c to p
InPlane(plane, c, p) ==
    IF plane = planeXY THEN <<p.x - c.x, p.y - c.y>>
    ELSE IF plane = planeXZ THEN <<p.z - c.z, p.x - c.x>>
    ELSE <<p.y - c.y, p.z - c.z>>

AxisAligned(d) == d[1] = 0 \/ d[2] = 0

Distance(d) == Abs(d[1]) + Abs(d[2])

\* What run must return for an arc of start radius r1 and end radius r2,
\* and what it must leave on the stack
ArcOutcomeOK(r1, r2, m, m2, e) ==
    IF r1 = 0 \/ r2 = 0
    THEN e = PanicInvalidArc /\ m2.posStack = m.posStack
    ELSE IF 100 * Abs(r2 - r1) > r1
    THEN e = PanicRadiusDeviation /\ m2.posStack = m.posStack
    ELSE e = Nil

\* A live run of an arc statement in metric units and absolute move mode
\* that names each axis and each of I, J, K at most once, with the start and
\* the end on the axes through the centre its words give
GivenArc(m, stmt_, c) ==
    /\ runCodes(m, stmt_).err = Nil
    /\ runGM(m, stmt_).state.moveMode \in {moveModeCWArc, moveModeCCWArc}
    /\ runGM(m, stmt_).metric
    /\ runGM(m, stmt_).absoluteMove
    /\ NamesAxesOnce(stmt_)
    /\ \A a \in {"I", "J", "K"} : Times(stmt_, a) <= 1
    /\ AxisAligned(InPlane(runGM(m, stmt_).movePlane, c, curPos(m)))
    /\ AxisAligned(InPlane(runGM(m, stmt_).movePlane, c,
                           GivenEnd(stmt_, curPos(m))))

\* C12: an arc statement returns the error of a degenerate arc exactly when
\* the centre given by its I, J, K words is at distance 0 from the start or
\* the end, the error of a radius mismatch exactly when both distances are
\* not 0 and differ by more than 1% of the start radius, and no error
\* otherwise; a failing arc pushes no position.
C12_ArcErrors ==
    [][(/\ RanLive
        /\ GivenArc(vm, stmt',
                    GivenCentre(runGM(vm, stmt'), stmt', curPos(vm)))) =>
            ArcOutcomeOK(
                Distance(InPlane(vm'.movePlane,
                    GivenCentre(runGM(vm, stmt'), stmt', curPos(vm)),
                    curPos(vm))),
                Distance(InPlane(vm'.movePlane,
                    GivenCentre(runGM(vm, stmt'), stmt', curPos(vm)),
                    GivenEnd(stmt', curPos(vm)))),
                vm, vm', err')]_vars

\* The coordinate new of an axis after an absolute move from cur: the
\* written value, times 25.4 in imperial mode, or cur for an axis not named
ScaledAxis(stmt_, address, metric, cur, new) ==
    IF Times(stmt_, address) = 0 THEN new = cur
    ELSE IF metric THEN new = ValueOf(stmt_, address)
    ELSE 10 * new = 254 * ValueOf(stmt_, address)

\* C13: in absolute move mode a rapid or linear move pushes one position
\* whose coordinate on a named axis is the written value, times 25.4 in
\* imperial mode and unscaled in metric mode (also after a return from
\* imperial mode), and whose coordinate on an axis not named is the
\* current one; the positions already on the stack are left as they are.
C13_UnitConversion ==
    [][(/\ RanLive
        /\ err' = Nil
        /\ NamesAxesOnce(stmt')
        /\ vm'.absoluteMove
        /\ runGM(vm, stmt').state.moveMode \in
                {moveModeRapid, moveModeLinear}) =>
            /\ Len(vm'.posStack) = Len(vm.posStack) + 1
            /\ IsPrefix(vm.posStack, vm'.posStack)
            /\ ScaledAxis(stmt', "X", vm'.metric, curPos(vm).x, curPos(vm').x)
            /\ ScaledAxis(stmt', "Y", vm'.metric, curPos(vm).y, curPos(vm').y)
            /\ ScaledAxis(stmt', "Z", vm'.metric, curPos(vm).z, curPos(vm').z)
       ]_vars

\* X1 was pushed as 25.4 in imperial mode; back in metric mode X2 is pushed
\* as 2 and the 25.4 is still on the stack
C13_Witness ==
    /\ op = "run"
    /\ err = Nil
    /\ stmt = <<G(21), X(2)>>
    /\ vm.metric
    /\ Len(vm.posStack) >= 3
    /\ vm.posStack[Len(vm.posStack) - 1].x = 2540
    /\ curPos(vm).x = Num(2)

\* A live run of an arc statement: after its codes are accepted the move
\* mode is an arc mode and the motion section is entered
ArcRun(m, stmt_) ==
    /\ runCodes(m, stmt_).err = Nil
    /\ runGM(m, stmt_).state.moveMode \in {moveModeCWArc, moveModeCCWArc}
    /\ includes(stmt_, XYZ)

\* The position p has the coordinates x, y, z of the resolved point e
AtEnd(p, e) == p.x = e.newX /\ p.y = e.newY /\ p.z = e.newZ

\* C14: the last position a successful arc statement pushes is the end
\* point calcPos resolves for the statement from the position before the
\* arc, in every plane, unit mode and move mode.
C14_ArcEndPoint ==
    [][(RanLive /\ ArcRun(vm, stmt') /\ err' = Nil) =>
            AtEnd(curPos(vm'), calcPos(runGM(vm, stmt'), stmt'))]_vars

\* The number of segments approximateArc uses for the frame f of an arc
StepsOfFrame(m, f, clockwise, turns, nanInt) ==
    arcSteps(m, arcRadius1(f), arcAngleDiff(f, clockwise, turns),
             Sub(f.e3, f.s3), nanInt)

\* The number of segments of the arc statement stmt_ run on machine m, m
\* being the machine after the codes of the statement
StepsUsed(m, stmt_, nanInt) ==
    StepsOfFrame(m, arcFrame(m, stmt_), m.state.moveMode = moveModeCWArc,
                 arcP(stmt_), nanInt)

\* C15: an arc that passes the radius checks is approximated by at least
\* one segment, also when it is shorter than the minimum segment length.
C15_AtLeastOneSegment ==
    [][(RanLive /\ ArcRun(vm, stmt') /\ err' = Nil) =>
            StepsUsed(runGM(vm, stmt'), stmt', intOfNaN) >= 1]_vars

\* Positions p and q have the same coordinates
SamePoint(p, q) == p.x = q.x /\ p.y = q.y /\ p.z = q.z

\* What a successful arc of n segments must push on the stack old, giving
\* the stack new: n + 1 positions, none at the start when the end is not
ArcPushesOK(n, old, new) ==
    /\ Len(new) = Len(old) + n + 1
    /\ ~SamePoint(new[Len(new)], old[Len(old)]) =>
            \A i \in (Len(old) + 1)..Len(new) :
                ~SamePoint(new[i], old[Len(old)])

\* C16: a successful arc statement of steps segments (at least one) pushes
\* steps interpolated positions and then the end point, steps + 1 positions
\* in all, and none of them is the start position of the arc when the end
\* differs from the start.
C16_ArcPositions ==
    [][(/\ RanLive
        /\ ArcRun(vm, stmt')
        /\ err' = Nil
        /\ StepsUsed(runGM(vm, stmt'), stmt', intOfNaN) >= 1) =>
            ArcPushesOK(StepsUsed(runGM(vm, stmt'), stmt', intOfNaN),
                        vm.posStack, vm'.posStack)]_vars

\* The orders of the words of a statement that keep the words of one
\* address in their order
KeepsOrder(stmt_, q) ==
    \A i, j \in 1..Len(stmt_) :
        (i < j /\ stmt_[q[i]].Address = stmt_[q[j]].Address) => q[i] < q[j]

Reorderings(stmt_) ==
    {[i \in 1..Len(stmt_) |-> stmt_[q[i]]] :
        q \in {p \in Permutations(1..Len(stmt_)) : KeepsOrder(stmt_, p)}}

\* C17: run of a statement and run of any reordering of it that keeps the
\* order of the words of each address return the same error and leave the
\* same machine (state, flags, position stack); X1 F100 G1 G20 behaves as
\* G20 G1 F100 X1.
C17_TokenOrder ==
    [][op' = "run" =>
        /\ \A s \in Reorderings(stmt') :
                run(vm, s, intOfNaN) = [vm |-> vm', err |-> err']
        /\ stmt' = <<X(1), F(100), G(1), G(20)>> =>
                run(vm, <<G(20), G(1), F(100), X(1)>>, intOfNaN) =
                    [vm |-> vm', err |-> err']]_vars

\* X1 F100 G1 G20 on a new machine: the units and the move mode were set
\* before the feedrate and the move were read
C17_Witness ==
    /\ op = "run"
    /\ stmt = <<X(1), F(100), G(1), G(20)>>
    /\ err = Nil
    /\ vm.state.feedrate = Mul254(Num(100))
    /\ curPos(vm).x = Mul254(Num(1))
    /\ curPos(vm).state.moveMode = moveModeLinear

\* The end point and the centre calcPos must resolve in metric units with
\* the move mode relative and the arc mode absolute: X, Y, Z from the
\* position p, I, J, K as coordinates
MixedResolved(stmt_, p, e) ==
    /\ e.newX = MovedAxis(stmt_, "X", FALSE, p.x)
    /\ e.newY = MovedAxis(stmt_, "Y", FALSE, p.y)
    /\ e.newZ = MovedAxis(stmt_, "Z", FALSE, p.z)
    /\ e.newI = WrittenOr0(stmt_, "I")
    /\ e.newJ = WrittenOr0(stmt_, "J")
    /\ e.newK = WrittenOr0(stmt_, "K")

\* C18: G90 and G91 change the move mode flag and nothing else, G90.1 and
\* G91.1 change the arc mode flag and nothing else; with the move mode
\* relative and the arc mode absolute the X, Y, Z of an arc statement are
\* resolved from the current position and its I, J, K as coordinates.
C18_ModeIndependence ==
    [][RanLive =>
        /\ stmt' = <<G(90)>> =>
                err' = Nil /\ vm' = [vm EXCEPT !.absoluteMove = TRUE]
        /\ stmt' = <<G(91)>> =>
                err' = Nil /\ vm' = [vm EXCEPT !.absoluteMove = FALSE]
        /\ stmt' = <<Word("G", G90_1)>> =>
                err' = Nil /\ vm' = [vm EXCEPT !.absoluteArc = TRUE]
        /\ stmt' = <<Word("G", G91_1)>> =>
                err' = Nil /\ vm' = [vm EXCEPT !.absoluteArc = FALSE]
        /\ (/\ ArcRun(vm, stmt')
            /\ vm'.metric
            /\ ~vm'.absoluteMove
            /\ vm'.absoluteArc
            /\ NamesAxesOnce(stmt')
            /\ \A a \in {"I", "J", "K"} : Times(stmt', a) <= 1) =>
                MixedResolved(stmt', curPos(vm),
                              calcPos(runGM(vm, stmt'), stmt'))]_vars

EndsProgram(w) == w.Address = "M" /\ w.Command \in {Num(2), Num(30)}

\* A statement without its M2 and M30 words
WithoutEnd(stmt_) == SelectSeq(stmt_, LAMBDA w : ~EndsProgram(w))

\* The outcome r of a run, with completed set
Completing(r) == [vm |-> [r.vm EXCEPT !.completed = TRUE], err |-> r.err]

\* C19: a statement that carries M2 or M30 sets completed, and its F, S and
\* axis words are still processed: but for the flag, the run returns and
\* leaves what the run of the statement without M2 and M30 does, positions
\* and errors included.
C19_CompletedFromNextStatement ==
    [][(RanLive /\ \E i \in 1..Len(stmt') : EndsProgram(stmt'[i])) =>
            [vm |-> vm', err |-> err'] =
                Completing(run(vm, WithoutEnd(stmt'), intOfNaN))]_vars

\* M30 G1 X1 has set completed and pushed its move
C19_Witness ==
    /\ op = "run"
    /\ stmt = <<M(30), G(1), X(1)>>
    /\ err = Nil
    /\ vm.completed
    /\ Len(vm.posStack) = calls + 1
    /\ curPos(vm).x = Num(1)

\* A machine but for its live feedrate and spindle speed
ButSpeeds(m) ==
    [m EXCEPT !.state.feedrate = 0, !.state.spindleSpeed = 0]

\* C20: when run returns the feedrate, spindle speed or move mode error the
\* G and M codes of the statement and the F and S values before the
\* rejected one stay applied and the position stack is as before the
\* statement; when an arc statement fails the live move mode is linear.
C20_NoRollback ==
    [][RanLive =>
        /\ err' \in {ErrFeedrate, ErrSpindleSpeed, ErrNoMoveMode} =>
            /\ vm'.posStack = vm.posStack
            /\ ButSpeeds(vm') = ButSpeeds(runGM(vm, stmt'))
            /\ FeedOK(FirstAtMost(FeedValues(vm, stmt'), 0),
                      vm, stmt', vm', err')
            /\ SpindleOK(FirstAtMost(FeedValues(vm, stmt'), 0),
                         FirstAtMost(getAll(stmt', "S"), -1),
                         vm, stmt', vm', err')
        /\ (ArcRun(vm, stmt') /\ err' # Nil) =>
            /\ vm'.state.moveMode = moveModeLinear
            /\ vm' = [runCodes(vm, stmt').vm EXCEPT
                        !.state.moveMode = moveModeLinear]]_vars

\* G18 M8 F100 S-1 was rejected at S-1 with the plane, the coolant and the
\* feedrate set, after a failed statement that left the move mode linear
C20_Witness ==
    /\ op = "run"
    /\ stmt = <<G(18), M(8), F(100), S(-1)>>
    /\ err = ErrSpindleSpeed
    /\ vm.movePlane = planeXZ
    /\ vm.state.floodCoolant
    /\ vm.state.feedrate = Num(100)
    /\ vm.state.moveMode = moveModeLinear
    /\ Len(vm.posStack) = 1

====
